---- MODULE Spec2Model ----
(***************************************************************************)
(* Blink camera dashboard: the live-view core of app_v2.py                 *)
(* (stream_camera.mjpeg_stream, _stream_via_ffmpeg, IMMISStreamHandler)    *)
(* and the subscription probing of blink_diagnostic.py (_test_immis).      *)
(*                                                                         *)
(* The repository is a set of independent entry points; `program` names    *)
(* the one a behaviour runs:                                               *)
(*   "stream"  : one call of mjpeg_stream() pulled by one HTTP consumer    *)
(*   "diag"    : one call of BlinkDiagnostic._test_immis()                 *)
(*   "handler" : one IMMISStreamHandler object driven by a caller          *)
(*   "parse"   : one endpoint reference taken from parsing to the          *)
(*               subscription, by IMMISStreamHandler or by _test_immis     *)
(*   "proxy"   : one call of BlinkDiagnostic._test_blinkpy_proxy()         *)
(*   "http"    : one request to an endpoint of app_v2.py or of             *)
(*               working_solution.py                                       *)
(* Bytes are Python bytes; indices into them are 0-based as in Python and  *)
(* converted where Sequences needs a 1-based index.                        *)
(***************************************************************************)
EXTENDS Integers, Sequences, FiniteSets, TLC

VARIABLES
    program,     \* which entry point this behaviour runs
    \* ---- mjpeg_stream (app_v2.py:356-428) ----
    s_pc,        \* position of the mjpeg_stream generator
    s_end,       \* how the generator ended: "none" | "ended" | "cancelled" | "raised"
    url,         \* scheme of camera.get_liveview(): "none" until fetched
    strategy,    \* strategies entered so far, in order
    frames,      \* what the consumer received: <<[src, data]>>
    feed,        \* feed_task: "none" | "running" | "failed" | "cancelled"
    proxy,       \* livestream proxy: "none" | "running" | "stopped"
    \* ---- _stream_via_ffmpeg (app_v2.py:520-570) ----
    ff_pc,       \* position of the _stream_via_ffmpeg generator
    ff_why,      \* why its finally block runs: "none" | "eof" | "cancel" | "gc"
    proc,        \* the ffmpeg process: "none" | "running" | "exited" | "finished" | "terminated"
    out,         \* every byte the process writes to stdout
    pos,         \* how many of them process.stdout.read() has returned
    chunk,       \* local `chunk`
    buffer,      \* local `buffer`
    term_calls,  \* number of process.terminate() calls
    \* ---- snapshot fallback (app_v2.py:409-428) ----
    round,       \* iterations of `for _ in range(600)` started
    cache,       \* camera.image_from_cache (shared with every other handler)
    last_frame,  \* local `last_frame`
    observed,    \* cache values read by the test on line 417, in order
    \* ---- BlinkDiagnostic._test_immis (blink_diagnostic.py:161-288) ----
    d_pc,        \* position in _test_immis
    d_i,         \* index into `payloads` of the candidate being tried
    d_conns,     \* every connection opened: <<[state, cand, writes, reads]>>
    d_writer,    \* the connection local `writer` is bound to (0: unbound)
    d_attempts,  \* number of asyncio.open_connection calls
    d_data,      \* local `data`
    d_hist,      \* each candidate tried, in order: <<[outcome, data]>>
    d_log,       \* self.log_result calls: <<[test, success, cand]>>
    \* ---- IMMISStreamHandler (app_v2.py:59-188) ----
    h_connected, \* self.connected
    h_writer,    \* the transport self.reader/self.writer wrap (0: None)
    h_conns,     \* every transport opened by connect(): <<[state, closes, io_closed]>>
    h_calls,     \* number of method calls made on the handler
    h_last,      \* the last call and what it returned: [op, ret]
    \* ---- an endpoint reference on its way to a connection ----
    p_pc,        \* "new" | "raised" | "parsed" | "dialled" | "built"
    p_who,       \* whose parser runs: "handler" | "diag"
    p_url,       \* the reference string
    p_parsed,    \* host, port and path as parsed
    p_dial,      \* host and port handed to asyncio.open_connection
    p_session,   \* the "session" field of the subscription
    \* ---- BlinkDiagnostic._test_blinkpy_proxy (blink_diagnostic.py:290-339) ----
    x_pc,        \* position in _test_blinkpy_proxy
    x_feed,      \* feed_task: "none" | "running" | "failed" | "cancelled"
    x_proxy,     \* the livestream proxy: "none" | "running" | "stopped"
    x_sock,      \* the test connection to the proxy: "none" | "open" | "closed"
    x_log,       \* self.log_result calls for "blinkpy Proxy": <<success>>
    \* ---- one request to an endpoint ----
    q_pc,        \* position in the endpoint function
    q_ep,        \* the endpoint function called
    q_auth,      \* the global `blink` is set
    q_known,     \* blink.cameras has a camera with the requested id
    q_cache0,    \* camera.image_from_cache when the request arrives
    q_cache,     \* camera.image_from_cache
    q_ops,       \* camera lookups and account-service operations, in order
    q_raised,    \* an account-service operation raised
    q_status,    \* HTTP status answered, or WebSocket close code (0: none yet)
    q_body       \* the image in the response

streamVars == <<s_pc, s_end, url, strategy, frames, feed, proxy>>
ffVars     == <<ff_pc, ff_why, proc, out, pos, chunk, buffer, term_calls>>
fbVars     == <<round, cache, last_frame, observed>>
diagVars   == <<d_pc, d_i, d_conns, d_writer, d_attempts, d_data, d_hist, d_log>>
handlerVars == <<h_connected, h_writer, h_conns, h_calls, h_last>>
parseVars  == <<p_pc, p_who, p_url, p_parsed, p_dial, p_session>>
proxyVars  == <<x_pc, x_feed, x_proxy, x_sock, x_log>>
httpVars   == <<q_pc, q_ep, q_auth, q_known, q_cache0, q_cache, q_ops, q_raised,
                q_status, q_body>>
vars       == <<program, streamVars, ffVars, fbVars, diagVars, handlerVars, parseVars,
                proxyVars, httpVars>>

\* what no step of mjpeg_stream touches
fixedS == <<program, diagVars, handlerVars, parseVars, proxyVars, httpVars>>

----------------------------------------------------------------------------
(* Bounds of the model *)

\* longest stdout of one ffmpeg process, in bytes
MaxLen == 5
\* stands for the 600 of `for _ in range(600)`
MaxRounds == 2
\* longest payload between the markers of a well-formed frame
MaxPayload == 1
\* stands for the configurable bound on buffered, unterminated bytes
OverflowBound == 3
\* most method calls made on one IMMISStreamHandler
MaxCalls == 4
\* most digits of a port number in a reference
MaxPortDigits == 2
\* stands for the minimum video-frame length of the classification rule
MinVideoFrame == 20

(* Program constants *)

\* process.stdout.read(65536)
ReadSize == 65536

FF == 255
D8 == 216
D9 == 217

\* bytes that matter to the demuxer, and one that does not
Byte == {0, D8, D9, FF}

\* camera.image_from_cache: None/empty or one of two distinct images
NoImage == <<>>
Images == {<<1>>, <<2>>}

Min(a, b) == IF a < b THEN a ELSE b

\* every stdout content of at most n bytes
BytesUpTo(n) == UNION {[1..k -> Byte] : k \in 0..n}

----------------------------------------------------------------------------
(* bytes.find and the frame scan of _stream_via_ffmpeg *)

\* bytes.find(<<b1, b2>>, from): lowest 0-based index >= from, or -1
Find(buf, b1, b2, from) ==
    LET hits == {i \in from..(Len(buf) - 2) : buf[i + 1] = b1 /\ buf[i + 2] = b2}
    IN IF hits = {} THEN -1 ELSE CHOOSE i \in hits : \A j \in hits : i <= j

\* buf[a:b] for 0 <= a <= b
Slice(buf, a, b) == SubSeq(buf, a + 1, Min(b, Len(buf)))

\* a demuxer that starts each read with an empty buffer
FeedForgetful(buf, c) == c

\* buffer += chunk
Feed(buf, c) == buf \o c

\* a scan that cuts the frame one byte short: buffer[start:end+1]
ScanOneShort(buf) ==
    LET start == Find(buf, FF, D8, 0)
        end   == IF start = -1 THEN -1 ELSE Find(buf, FF, D9, start)
    IN IF start = -1 \/ end = -1
       THEN [found |-> FALSE, frame |-> <<>>, rest |-> buf]
       ELSE [found |-> TRUE,
             frame |-> Slice(buf, start, end + 1),
             rest  |-> Slice(buf, end + 2, Len(buf))]

\* a scan that takes the last end marker in the buffer (rfind)
ScanOneGreedy(buf) ==
    LET start == Find(buf, FF, D8, 0)
        ends  == {i \in 0..(Len(buf) - 2) : i >= start /\ buf[i + 1] = FF /\ buf[i + 2] = D9}
        end   == IF start = -1 \/ ends = {} THEN -1
                 ELSE CHOOSE i \in ends : \A j \in ends : i >= j
    IN IF start = -1 \/ end = -1
       THEN [found |-> FALSE, frame |-> <<>>, rest |-> buf]
       ELSE [found |-> TRUE,
             frame |-> Slice(buf, start, end + 2),
             rest  |-> Slice(buf, end + 2, Len(buf))]

\* a scan that keeps what precedes the start marker: buffer[:end+2]
ScanOneKeepsPrefix(buf) ==
    LET start == Find(buf, FF, D8, 0)
        end   == IF start = -1 THEN -1 ELSE Find(buf, FF, D9, start)
    IN IF start = -1 \/ end = -1
       THEN [found |-> FALSE, frame |-> <<>>, rest |-> buf]
       ELSE [found |-> TRUE,
             frame |-> Slice(buf, 0, end + 2),
             rest  |-> Slice(buf, end + 2, Len(buf))]

\* one iteration of the inner `while True` (lines 555-566):
\* found = FALSE is either `break`
ScanOne(buf) ==
    LET start == Find(buf, FF, D8, 0)
        end   == IF start = -1 THEN -1 ELSE Find(buf, FF, D9, start)
    IN IF start = -1 \/ end = -1
       THEN [found |-> FALSE, frame |-> <<>>, rest |-> buf]
       ELSE [found |-> TRUE,
             frame |-> Slice(buf, start, end + 2),
             rest  |-> Slice(buf, end + 2, Len(buf))]

----------------------------------------------------------------------------
(* mjpeg_stream: control transfers shared by several steps *)

\* control reaches line 406: the snapshot loop starts its first iteration
EnterFallback ==
    /\ s_pc' = "fb_snap"
    /\ strategy' = Append(strategy, "snapshot")
    /\ round' = 1
    /\ UNCHANGED <<s_end, cache, last_frame, observed>>

\* the generator finishes: by `return`, by the end of the loop or by
\* CancelledError/GeneratorExit (a BaseException no handler catches)
Finish(how) ==
    /\ s_pc' = "done"
    /\ s_end' = how
    /\ UNCHANGED <<strategy, fbVars>>

\* a cleanup that forgets livestream.stop()
CleanedProxyLeft == proxy

\* lines 398-400, the `finally` of the immis branch: feed_task.cancel()
\* (a no-op on a task that is done) and livestream.stop()
CleanedFeed == IF url = "immis" /\ feed = "running" THEN "cancelled" ELSE feed
CleanedProxy == IF url = "immis" /\ proxy = "running" THEN "stopped" ELSE proxy
RelayCleanup ==
    /\ feed' = CleanedFeed
    /\ proxy' = CleanedProxy

\* the locals of _stream_via_ffmpeg and the pipe die with the generator
DropLocals ==
    /\ out' = <<>>
    /\ pos' = 0
    /\ chunk' = <<>>
    /\ buffer' = <<>>

\* a consumer that gets the newest frame first
DeliverFirst(seq, f) == <<[src |-> "relay", data |-> f]>> \o seq

\* lines 566 and 373-377 / 393-397: the frame is yielded to mjpeg_stream,
\* which yields it to the consumer before it asks for the next one
Deliver(seq, f) == Append(seq, [src |-> "relay", data |-> f])

\* the inner loop runs until it yields a frame (mjpeg_stream passes it on,
\* lines 374-377 / 394-397) or breaks back to the read on line 548
ScanStep(buf) ==
    LET r == ScanOne(buf)
    IN /\ buffer' = r.rest
       /\ IF r.found
          THEN /\ frames' = Deliver(frames, r.frame)
               /\ ff_pc' = "yielded"
          ELSE /\ frames' = frames
               /\ ff_pc' = "read"

----------------------------------------------------------------------------
(* mjpeg_stream, strategy selection (lines 360-404) *)

\* line 368: camera.get_liveview() raises, or returns None (url[:50] raises)
GetLiveviewFails ==
    /\ program = "stream" /\ s_pc = "start"
    /\ EnterFallback
    /\ UNCHANGED <<fixedS, url, frames, feed, proxy, ffVars>>

\* lines 368-380: the scheme picks the branch; neither prefix falls through
GetLiveview ==
    /\ program = "stream" /\ s_pc = "start"
    /\ \E k \in {"rtsps", "immis", "rtsp", "other"} :
         /\ url' = k
         /\ CASE k = "rtsps" ->
                   /\ s_pc' = "relay" /\ ff_pc' = "spawn"
                   /\ strategy' = Append(strategy, "rtsps_relay")
                   /\ UNCHANGED <<s_end, fbVars>>
              [] k = "immis" ->
                   /\ s_pc' = "init_ls" /\ ff_pc' = ff_pc
                   /\ strategy' = Append(strategy, "immis_relay")
                   /\ UNCHANGED <<s_end, fbVars>>
              [] OTHER -> EnterFallback /\ ff_pc' = ff_pc
    /\ UNCHANGED <<fixedS, frames, feed, proxy, ff_why, proc, out, pos, chunk,
                   buffer, term_calls>>

\* line 382: camera.init_livestream()
InitLivestream ==
    /\ program = "stream" /\ s_pc = "init_ls"
    /\ \/ s_pc' = "start_ls" /\ UNCHANGED <<s_end, strategy, fbVars>>
       \/ EnterFallback
    /\ UNCHANGED <<fixedS, url, frames, feed, proxy, ffVars>>

\* lines 383-387: livestream.start(), then create_task(livestream.feed())
StartLivestream ==
    /\ program = "stream" /\ s_pc = "start_ls"
    /\ \/ /\ s_pc' = "sleep1" /\ proxy' = "running" /\ feed' = "running"
          /\ UNCHANGED <<s_end, strategy, fbVars>>
       \/ EnterFallback /\ UNCHANGED <<feed, proxy>>
    /\ UNCHANGED <<fixedS, url, frames, ffVars>>

\* line 391: asyncio.sleep(1), then the async for of line 393 starts
Sleep1 ==
    /\ program = "stream" /\ s_pc = "sleep1"
    /\ s_pc' = "relay" /\ ff_pc' = "spawn"
    /\ UNCHANGED <<fixedS, s_end, url, strategy, frames, feed, proxy, ff_why,
                   proc, out, pos, chunk, buffer, term_calls, fbVars>>

\* livestream.feed() (the vendor SDK's negotiation with the immis endpoint)
\* fails in its own task: nothing awaits feed_task, so nothing is raised
FeedFails ==
    /\ program = "stream" /\ feed = "running"
    /\ feed' = "failed"
    /\ UNCHANGED <<fixedS, s_pc, s_end, url, strategy, frames, proxy, ffVars, fbVars>>

----------------------------------------------------------------------------
(* _stream_via_ffmpeg (lines 520-570) *)

\* line 539: create_subprocess_exec raises (no ffmpeg binary); the try of
\* line 545 was never entered, mjpeg_stream's handlers run
SpawnFails ==
    /\ program = "stream" /\ s_pc = "relay" /\ ff_pc = "spawn"
    /\ ff_pc' = "closed"
    /\ RelayCleanup
    /\ EnterFallback
    /\ UNCHANGED <<fixedS, url, frames, ff_why, proc, out, pos, chunk, buffer,
                   term_calls>>

\* line 539: the process starts; `out` is all it will ever write. Fed by a
\* proxy whose feed has failed, ffmpeg has nothing to transcode.
Spawn(S) ==
    /\ program = "stream" /\ s_pc = "relay" /\ ff_pc = "spawn"
    /\ proc' = "running"
    /\ out' \in (IF url = "immis" /\ feed = "failed" THEN {<<>>} ELSE S)
    /\ pos' = 0 /\ chunk' = <<>> /\ buffer' = <<>>
    /\ ff_pc' = "read"
    /\ UNCHANGED <<fixedS, streamVars, ff_why, term_calls, fbVars>>

\* ffmpeg exits by itself once it has written `out`
ProcExit ==
    /\ program = "stream" /\ proc = "running"
    /\ proc' = "exited"
    /\ UNCHANGED <<fixedS, streamVars, ff_pc, ff_why, out, pos, chunk, buffer,
                   term_calls, fbVars>>

\* asyncio has seen the exit and the end of both pipes: the transport drops
\* its Popen object, after which terminate() raises ProcessLookupError
TransportFinish ==
    /\ program = "stream" /\ proc = "exited"
    /\ proc' = "finished"
    /\ UNCHANGED <<fixedS, streamVars, ff_pc, ff_why, out, pos, chunk, buffer,
                   term_calls, fbVars>>

\* lines 548-566: read returns k bytes, buffer += chunk, the inner loop runs
ReadChunk ==
    /\ program = "stream" /\ ff_pc = "read" /\ pos < Len(out)
    /\ \E k \in 1..Min(Len(out) - pos, ReadSize) :
         /\ chunk' = SubSeq(out, pos + 1, pos + k)
         /\ pos' = pos + k
         /\ ScanStep(Feed(buffer, chunk'))
    /\ UNCHANGED <<fixedS, s_pc, s_end, url, strategy, feed, proxy, ff_why,
                   proc, out, term_calls, fbVars>>

\* lines 548-550: read returns b"" at end of file, `break` to the finally
ReadEOF ==
    /\ program = "stream" /\ ff_pc = "read" /\ pos = Len(out)
    /\ proc \in {"exited", "finished"}
    /\ chunk' = <<>>
    /\ ff_pc' = "finally" /\ ff_why' = "eof"
    /\ UNCHANGED <<fixedS, streamVars, proc, out, pos, buffer, term_calls, fbVars>>

\* line 566: the consumer pulls again, the inner loop resumes after the yield
Resume ==
    /\ program = "stream" /\ ff_pc = "yielded"
    /\ ScanStep(buffer)
    /\ UNCHANGED <<fixedS, s_pc, s_end, url, strategy, feed, proxy, ff_why,
                   proc, out, pos, chunk, term_calls, fbVars>>

\* the consumer disconnects while read() is pending: CancelledError is
\* raised on line 548 and the finally block runs
CancelAtRead ==
    /\ program = "stream" /\ ff_pc = "read"
    /\ proc \in {"running", "exited"}
    /\ ff_pc' = "finally" /\ ff_why' = "cancel"
    /\ UNCHANGED <<fixedS, streamVars, proc, out, pos, chunk, buffer,
                   term_calls, fbVars>>

\* the consumer drops mjpeg_stream while it is suspended in a yield of lines
\* 374-377 / 394-397: GeneratorExit runs lines 398-400, and the abandoned
\* inner generator is closed by the event loop's finalizer
CancelAtYield ==
    /\ program = "stream" /\ ff_pc = "yielded"
    /\ RelayCleanup
    /\ s_pc' = "finalizing" /\ s_end' = "cancelled"
    /\ ff_pc' = "finally" /\ ff_why' = "gc"
    /\ UNCHANGED <<fixedS, url, strategy, frames, proc, out, pos, chunk, buffer,
                   term_calls, fbVars>>

\* lines 568-570 and what the caller does with the outcome:
\* process.terminate() raises ProcessLookupError on a finished transport,
\* otherwise SIGTERM is sent (to a live process) and wait() returns
TerminateRaises == proc = "finished"
Terminate ==
    /\ program = "stream" /\ ff_pc = "finally"
    /\ term_calls' = term_calls + 1
    /\ proc' = IF proc = "running" THEN "terminated" ELSE proc
    /\ ff_pc' = "closed"
    /\ DropLocals
    /\ CASE ff_why = "gc" ->
              \* raised or not, only the finalizer task sees it
              /\ s_pc' = "done"
              /\ UNCHANGED <<s_end, strategy, feed, proxy, fbVars>>
         [] ff_why = "eof" /\ TerminateRaises ->
              \* propagates out of the async for into `except Exception`
              /\ RelayCleanup
              /\ EnterFallback
         [] OTHER ->
              \* `return` after the loop, or CancelledError passing through
              /\ RelayCleanup
              /\ Finish(IF ff_why = "eof" THEN "ended" ELSE "cancelled")
    /\ UNCHANGED <<fixedS, url, frames, ff_why>>

\* the consumer disconnects during an await of lines 368-391 or 539
CancelEarly ==
    /\ program = "stream"
    /\ \/ s_pc \in {"start", "init_ls", "start_ls", "sleep1"}
       \/ s_pc = "relay" /\ ff_pc = "spawn"
    /\ RelayCleanup
    /\ Finish("cancelled")
    /\ UNCHANGED <<fixedS, url, frames, ffVars>>

----------------------------------------------------------------------------
(* mjpeg_stream, snapshot fallback (lines 406-428) *)

FallbackPcs == {"fb_snap", "fb_refresh", "fb_yield", "fb_rate", "fb_err"}

\* a loop that raises when its iterations are used up
NextRoundRaises ==
    IF round < MaxRounds
    THEN /\ s_pc' = "fb_snap" /\ round' = round + 1
         /\ UNCHANGED <<s_end, strategy>>
    ELSE /\ s_pc' = "done" /\ s_end' = "raised"
         /\ UNCHANGED <<round, strategy>>

\* the `for _ in range(600)` header: another iteration, or the end
NextRound ==
    IF round < MaxRounds
    THEN /\ s_pc' = "fb_snap" /\ round' = round + 1
         /\ UNCHANGED <<s_end, strategy>>
    ELSE /\ s_pc' = "done" /\ s_end' = "ended"
         /\ UNCHANGED <<round, strategy>>

\* lines 413-414: snap_picture() and sleep(0.5); a raise goes to line 426
FbSnap ==
    /\ program = "stream" /\ s_pc = "fb_snap"
    /\ s_pc' \in {"fb_refresh", "fb_err"}
    /\ UNCHANGED <<fixedS, s_end, url, strategy, frames, feed, proxy, ffVars, fbVars>>

\* lines 415 (raising): blink.refresh(force=True) raises, line 426 catches
FbRefreshFails ==
    /\ program = "stream" /\ s_pc = "fb_refresh"
    /\ s_pc' = "fb_err"
    /\ UNCHANGED <<fixedS, s_end, url, strategy, frames, feed, proxy, ffVars, fbVars>>

\* the test of line 417
IsNewFrame(img, last) == img # NoImage /\ img # last

\* lines 415-419: refresh() stores an image in the cache; without another
\* await the test of line 417 reads it, line 418 records it and line 419
\* suspends in `yield boundary`
FbRefresh ==
    /\ program = "stream" /\ s_pc = "fb_refresh"
    /\ \E img \in Images \cup {NoImage} :
         /\ cache' = img
         /\ observed' = Append(observed, img)
         /\ IF IsNewFrame(img, last_frame)
            THEN last_frame' = img /\ s_pc' = "fb_yield"
            ELSE last_frame' = last_frame /\ s_pc' = "fb_rate"
    /\ UNCHANGED <<fixedS, s_end, url, strategy, frames, feed, proxy, ffVars, round>>

\* line 421 reads the cache again
YieldedImage == cache

\* lines 420-422: the consumer pulls the boundary and the header, then line
\* 421 yields the image and line 422 the trailer
FbYield ==
    /\ program = "stream" /\ s_pc = "fb_yield"
    /\ frames' = Append(frames, [src |-> "snapshot", data |-> YieldedImage])
    /\ s_pc' = "fb_rate"
    /\ UNCHANGED <<fixedS, s_end, url, strategy, feed, proxy, ffVars, fbVars>>

\* line 424: sleep(1), then the loop header
FbRate ==
    /\ program = "stream" /\ s_pc = "fb_rate"
    /\ NextRound
    /\ UNCHANGED <<fixedS, url, frames, feed, proxy, ffVars, cache, last_frame, observed>>

\* lines 426-428: the error is logged, sleep(2), then the loop header
FbErr ==
    /\ program = "stream" /\ s_pc = "fb_err"
    /\ NextRound
    /\ UNCHANGED <<fixedS, url, frames, feed, proxy, ffVars, cache, last_frame, observed>>

\* the consumer disconnects during an await or a yield of the fallback
FbCancel ==
    /\ program = "stream" /\ s_pc \in FallbackPcs
    /\ Finish("cancelled")
    /\ UNCHANGED <<fixedS, url, frames, feed, proxy, ffVars>>

\* another task (another viewer, get_thumbnail, websocket_stream) refreshes
\* the same camera while this generator is suspended
OtherRefresh ==
    /\ program = "stream" /\ s_pc \in FallbackPcs
    /\ \E img \in Images \cup {NoImage} : cache' = img /\ img # cache
    /\ UNCHANGED <<fixedS, streamVars, ffVars, round, last_frame, observed>>

----------------------------------------------------------------------------
InitStream ==
    /\ s_pc = "start" /\ s_end = "none" /\ url = "none"
    /\ strategy = <<>> /\ frames = <<>>
    /\ feed = "none" /\ proxy = "none"
    /\ ff_pc = "idle" /\ ff_why = "none" /\ proc = "none"
    /\ out = <<>> /\ pos = 0 /\ chunk = <<>> /\ buffer = <<>>
    /\ term_calls = 0
    /\ round = 0 /\ cache = NoImage /\ last_frame = NoImage /\ observed = <<>>

\* mjpeg_stream is not the program that runs
StreamOff ==
    /\ s_pc = "off" /\ s_end = "none" /\ url = "none"
    /\ strategy = <<>> /\ frames = <<>>
    /\ feed = "none" /\ proxy = "none"
    /\ ff_pc = "idle" /\ ff_why = "none" /\ proc = "none"
    /\ out = <<>> /\ pos = 0 /\ chunk = <<>> /\ buffer = <<>>
    /\ term_calls = 0
    /\ round = 0 /\ cache = NoImage /\ last_frame = NoImage /\ observed = <<>>

\* strategy selection and the relay through ffmpeg
NextRelay(S) ==
    \/ GetLiveview
    \/ InitLivestream \/ StartLivestream \/ Sleep1 \/ FeedFails
    \/ SpawnFails \/ Spawn(S) \/ ProcExit \/ TransportFinish
    \/ ReadChunk \/ ReadEOF \/ Resume
    \/ CancelAtRead \/ CancelAtYield \/ Terminate \/ CancelEarly

\* the snapshot loop
NextFallback ==
    \/ FbSnap \/ FbRefreshFails \/ FbRefresh \/ FbYield \/ FbRate \/ FbErr
    \/ FbCancel \/ OtherRefresh

NextStream(S) == GetLiveviewFails \/ NextRelay(S) \/ NextFallback

----------------------------------------------------------------------------
(* BlinkDiagnostic._test_immis (blink_diagnostic.py:161-288) *)

\* the names of `payloads`, lines 216-241, in list order
Candidates == <<"Simple", "With Auth", "Full">>

\* data[:20] on line 266
Window == 20

Pad(n) == [i \in 1..n |-> 7]

\* what the endpoint may answer to a subscription
VideoLong  == <<0, 0, 0, 1, 103>>
VideoShort == <<9, 0, 0, 1>>
JsonError  == <<123, 125>>
Garbage    == <<7, 7>>
LateCode   == Pad(Window) \o <<0, 0, 0, 1>>
EdgeCode   == Pad(Window - 2) \o <<0, 0, 1>>
InsideCode == Pad(Window - 3) \o <<0, 0, 1>>
Responses  == {VideoLong, VideoShort, JsonError, Garbage, LateCode, EdgeCode,
               InsideCode}

\* `pat in data` for bytes
Contains(data, pat) ==
    \E i \in 0..(Len(data) - Len(pat)) :
        \A j \in 1..Len(pat) : data[i + j] = pat[j]

\* a test that knows the four-byte start code only
IsVideoLongOnly(data) == Contains(Slice(data, 0, Window), <<0, 0, 0, 1>>)

\* line 266
IsVideo(data) ==
    \/ Contains(Slice(data, 0, Window), <<0, 0, 0, 1>>)
    \/ Contains(Slice(data, 0, Window), <<0, 0, 1>>)

\* lines 261-278: what _test_immis makes of the bytes read. The JSON parse
\* of lines 272-276 only prints; every non-video answer takes the same path.
Classify(data) ==
    IF data = <<>> THEN "Empty"
    ELSE IF IsVideo(data) THEN "Success"
    ELSE "ProtocolError"

NewConn(c) == [state |-> "open", cand |-> c, writes |-> 0, reads |-> 0]

\* line 283: writer.close()
CloseWriter(conns, w) == [conns EXCEPT ![w].state = "closed"]

\* a loop that sends the next payload on the connection it has
NextCandidateReuses ==
    IF d_i < Len(Candidates)
    THEN /\ d_i' = d_i + 1 /\ d_pc' = "write" /\ d_log' = d_log
    ELSE /\ d_i' = d_i /\ d_pc' = "done"
         /\ d_log' = Append(d_log, [test |-> "IMMIS Subscription",
                                    success |-> FALSE, cand |-> "none"])

\* a loop that gives up after the first candidate that fails
NextCandidateStops ==
    /\ d_i' = d_i /\ d_pc' = "done"
    /\ d_log' = Append(d_log, [test |-> "IMMIS Subscription",
                               success |-> FALSE, cand |-> "none"])

\* the for statement of line 243 moves to the next payload, or line 288
NextCandidate ==
    IF d_i < Len(Candidates)
    THEN /\ d_i' = d_i + 1 /\ d_pc' = "connect" /\ d_log' = d_log
    ELSE /\ d_i' = d_i /\ d_pc' = "done"
         /\ d_log' = Append(d_log, [test |-> "IMMIS Subscription",
                                    success |-> FALSE, cand |-> "none"])

notDiag == <<program, streamVars, ffVars, fbVars, handlerVars, parseVars, proxyVars,
             httpVars>>

\* lines 186-191: gethostbyname; on failure the test returns
DiagDns ==
    /\ program = "diag" /\ d_pc = "dns"
    /\ d_pc' \in {"probe", "done"}
    /\ UNCHANGED <<notDiag, d_i, d_conns, d_writer, d_attempts, d_data, d_hist, d_log>>

\* lines 199-208: the TLS test connection of phase 5.2
DiagProbe ==
    /\ program = "diag" /\ d_pc = "probe"
    /\ d_attempts' = d_attempts + 1
    /\ \/ /\ d_conns' = Append(d_conns, NewConn(0))
          /\ d_writer' = Len(d_conns) + 1
          /\ d_pc' = "connect" /\ d_i' = 1
          /\ d_log' = d_log
       \/ /\ d_pc' = "done"
          /\ d_log' = Append(d_log, [test |-> "IMMIS Connection",
                                     success |-> FALSE, cand |-> "none"])
          /\ UNCHANGED <<d_conns, d_writer, d_i>>
    /\ UNCHANGED <<notDiag, d_data, d_hist>>

\* a connect failure that ends the test like the one of line 206
ConnectFailedReturns ==
    /\ d_hist' = Append(d_hist, [outcome |-> "ConnectError", data |-> <<>>])
    /\ d_i' = d_i /\ d_pc' = "done"
    /\ d_log' = Append(d_log, [test |-> "IMMIS Connection",
                               success |-> FALSE, cand |-> "none"])
    /\ UNCHANGED <<d_conns, d_writer>>

\* lines 285-286: open_connection raised inside the loop; the handler
\* prints the error and the for statement goes on
ConnectFailed ==
    /\ d_hist' = Append(d_hist, [outcome |-> "ConnectError", data |-> <<>>])
    /\ NextCandidate
    /\ UNCHANGED <<d_conns, d_writer>>

\* lines 248-251: "Reconnect" for candidate d_i; a failure is caught on
\* line 285 and the loop goes on
DiagConnect ==
    /\ program = "diag" /\ d_pc = "connect"
    /\ d_attempts' = d_attempts + 1
    /\ \/ /\ d_conns' = Append(d_conns, NewConn(d_i))
          /\ d_writer' = Len(d_conns) + 1
          /\ d_pc' = "write"
          /\ UNCHANGED <<d_i, d_hist, d_log>>
       \/ ConnectFailed
    /\ UNCHANGED <<notDiag, d_data>>

\* lines 254-255: write and drain; a failure is caught on line 285
DiagWrite ==
    /\ program = "diag" /\ d_pc = "write"
    /\ d_conns' = [d_conns EXCEPT ![d_writer].writes = @ + 1]
    /\ \/ d_pc' = "read" /\ UNCHANGED <<d_i, d_hist, d_log>>
       \/ d_hist' = Append(d_hist, [outcome |-> "WriteError", data |-> <<>>]) /\ NextCandidate
    /\ UNCHANGED <<notDiag, d_writer, d_attempts, d_data>>

\* lines 259-283 with an answer: video returns on line 269, anything else
\* (also no bytes at all) reaches writer.close() on line 283
DiagRead ==
    /\ program = "diag" /\ d_pc = "read"
    /\ \E data \in Responses \cup {<<>>} :
         LET read == [d_conns EXCEPT ![d_writer].reads = @ + 1]
         IN /\ d_data' = data
            /\ d_hist' = Append(d_hist, [outcome |-> Classify(data), data |-> data])
            /\ IF Classify(data) = "Success"
               THEN /\ d_conns' = read
                    /\ d_log' = Append(d_log, [test |-> "IMMIS Subscription",
                                               success |-> TRUE,
                                               cand |-> Candidates[d_i]])
                    /\ d_pc' = "done" /\ d_i' = d_i
               ELSE /\ d_conns' = CloseWriter(read, d_writer)
                    /\ NextCandidate
    /\ UNCHANGED <<notDiag, d_writer, d_attempts>>

\* lines 259, 280-283: the read times out after 5 s; the inner handler
\* catches it and writer.close() runs
DiagReadTimeout ==
    /\ program = "diag" /\ d_pc = "read"
    /\ d_conns' = CloseWriter([d_conns EXCEPT ![d_writer].reads = @ + 1], d_writer)
    /\ d_hist' = Append(d_hist, [outcome |-> "Timeout", data |-> <<>>])
    /\ NextCandidate
    /\ UNCHANGED <<notDiag, d_writer, d_attempts, d_data>>

\* lines 259, 285-286: the read raises something else (connection reset);
\* the outer handler catches it, line 283 is skipped
DiagReadError ==
    /\ program = "diag" /\ d_pc = "read"
    /\ d_conns' = [d_conns EXCEPT ![d_writer].reads = @ + 1]
    /\ d_hist' = Append(d_hist, [outcome |-> "ReadError", data |-> <<>>])
    /\ NextCandidate
    /\ UNCHANGED <<notDiag, d_writer, d_attempts, d_data>>

InitDiag ==
    /\ d_pc = "dns" /\ d_i = 0 /\ d_conns = <<>> /\ d_writer = 0
    /\ d_attempts = 0 /\ d_data = <<>> /\ d_hist = <<>> /\ d_log = <<>>

DiagOff ==
    /\ d_pc = "off" /\ d_i = 0 /\ d_conns = <<>> /\ d_writer = 0
    /\ d_attempts = 0 /\ d_data = <<>> /\ d_hist = <<>> /\ d_log = <<>>

NextDiag ==
    \/ DiagDns \/ DiagProbe \/ DiagConnect \/ DiagWrite
    \/ DiagRead \/ DiagReadTimeout \/ DiagReadError

----------------------------------------------------------------------------
(* IMMISStreamHandler (app_v2.py:59-188); reader and writer are assigned
   together on line 115 and wrap the same transport *)

notHandler == <<program, streamVars, ffVars, fbVars, diagVars, parseVars, proxyVars,
                httpVars>>

NewTransport == [state |-> "open", closes |-> 0, io_closed |-> 0]

\* lines 106-124: a failure leaves reader, writer and connected as they were
Connect ==
    /\ program = "handler" /\ h_calls < MaxCalls
    /\ h_calls' = h_calls + 1
    /\ \/ /\ h_conns' = Append(h_conns, NewTransport)
          /\ h_writer' = Len(h_conns) + 1
          /\ h_connected' = TRUE
          /\ h_last' = [op |-> "connect", ret |-> "True"]
       \/ /\ h_last' = [op |-> "connect", ret |-> "False"]
          /\ UNCHANGED <<h_conns, h_writer, h_connected>>
    /\ UNCHANGED notHandler

\* lines 151-165: the guard is self.connected; a failing write or drain
\* (the peer reset the connection) is caught and reported as False
StartStream ==
    /\ program = "handler" /\ h_calls < MaxCalls
    /\ h_calls' = h_calls + 1
    /\ IF ~h_connected
       THEN /\ h_last' = [op |-> "start_stream", ret |-> "False"]
            /\ h_conns' = h_conns
       ELSE \/ /\ h_conns[h_writer].state = "open"
               /\ h_last' = [op |-> "start_stream", ret |-> "True"]
               /\ h_conns' = h_conns
            \/ /\ h_last' = [op |-> "start_stream", ret |-> "False"]
               /\ h_conns' = [h_conns EXCEPT ![h_writer].state = "broken"]
    /\ UNCHANGED <<notHandler, h_connected, h_writer>>

\* lines 167-178: the guard is self.reader, which close() leaves set; a read
\* on the closed transport returns b"" (end of file)
ReadData ==
    /\ program = "handler" /\ h_calls < MaxCalls
    /\ h_calls' = h_calls + 1
    /\ IF h_writer = 0
       THEN /\ h_last' = [op |-> "read_data", ret |-> "None"]
            /\ h_conns' = h_conns
       ELSE IF h_conns[h_writer].state = "closed"
       THEN /\ h_last' = [op |-> "read_data", ret |-> "empty"]
            /\ h_conns' = [h_conns EXCEPT ![h_writer].io_closed = @ + 1]
       ELSE \/ /\ h_conns[h_writer].state = "open"
               /\ h_last' \in {[op |-> "read_data", ret |-> r] : r \in {"data", "empty"}}
               /\ h_conns' = h_conns
            \/ /\ h_last' = [op |-> "read_data", ret |-> "None"]
               /\ h_conns' = [h_conns EXCEPT ![h_writer].state = "broken"]
    /\ UNCHANGED <<notHandler, h_connected, h_writer>>

\* lines 182-187: writer.close() when there is a writer (harmless on a
\* transport that is already closed); wait_closed() may raise, the bare
\* except swallows it
ClosedTransports(conns, w) ==
    IF w = 0 THEN conns
    ELSE [conns EXCEPT ![w].state = "closed", ![w].closes = @ + 1]

\* a close() without the try/except around wait_closed()
WaitClosedUnguarded(state) == IF state = "broken" THEN "raised" ELSE "None"

\* lines 184-187: on a transport the peer has reset wait_closed() raises;
\* the bare except swallows it and close() returns None
WaitClosed(state) == "None"

\* lines 180-188
Close ==
    /\ program = "handler" /\ h_calls < MaxCalls
    /\ h_calls' = h_calls + 1
    /\ h_conns' = ClosedTransports(h_conns, h_writer)
    /\ h_connected' = FALSE
    /\ h_last' = [op |-> "close",
                  ret |-> IF h_writer = 0 THEN "None"
                          ELSE WaitClosed(h_conns[h_writer].state)]
    /\ UNCHANGED <<notHandler, h_writer>>

\* lines 80-82: the state __init__ leaves
InitHandler ==
    /\ h_connected = FALSE /\ h_writer = 0 /\ h_conns = <<>>
    /\ h_calls = 0 /\ h_last = [op |-> "init", ret |-> "None"]

HandlerOff == InitHandler

NextHandler == Connect \/ StartStream \/ ReadData \/ Close

----------------------------------------------------------------------------
(* The two parsers of an immis:// reference: IMMISStreamHandler._parse_url
   with _build_subscription (app_v2.py:84-104, 130-137) and the head of
   _test_immis (blink_diagnostic.py:166-178, 214). A str is a sequence of
   one-character strings. *)

Immis == <<"i", "m", "m", "i", "s", ":", "/", "/">>
Rtsp  == <<"r", "t", "s", "p", ":", "/", "/">>
Rtsps == <<"r", "t", "s", "p", "s", ":", "/", "/">>
SessionKey == <<"s", "e", "s", "s", "i", "o", "n", "=">>

\* url[8:] / len('immis://')
SchemeLen == 8
\* port = 443
DefaultPort == 443

DigitChars == <<"0", "1", "2", "3", "4", "5", "6", "7", "8", "9">>
IsDigit(c) == \E d \in 1..10 : DigitChars[d] = c
DigitVal(c) == (CHOOSE d \in 1..10 : DigitChars[d] = c) - 1

\* s.startswith(p)
StartsWith(str, p) == Len(str) >= Len(p) /\ SubSeq(str, 1, Len(p)) = p

\* s[n:]
Drop(str, n) == SubSeq(str, n + 1, Len(str))

\* number of occurrences of the character c
Count(str, c) == Cardinality({i \in 1..Len(str) : str[i] = c})

\* 1-based index of the first c, 0 when c is not in s
IndexOf(str, c) ==
    IF Count(str, c) = 0 THEN 0
    ELSE CHOOSE i \in 1..Len(str) : str[i] = c /\ \A j \in 1..(i - 1) : str[j] # c

\* s.split(c, 1)[0] and [1], for c in s
Before(str, c) == SubSeq(str, 1, IndexOf(str, c) - 1)
After(str, c) == Drop(str, IndexOf(str, c))

\* s.split(c)[0], whether or not c is in s
UpTo(str, c) == IF Count(str, c) = 0 THEN str ELSE Before(str, c)

\* 1-based starts of the occurrences of pat in s
Occurrences(str, pat) ==
    {i \in 1..(Len(str) - Len(pat) + 1) : SubSeq(str, i, i + Len(pat) - 1) = pat}

\* s.split(pat)[-1]: what follows the last occurrence of pat
AfterLast(str, pat) ==
    LET occ == Occurrences(str, pat)
    IN IF occ = {} THEN str
       ELSE Drop(str, (CHOOSE i \in occ : \A j \in occ : j <= i) + Len(pat) - 1)

\* s.strip(c)
RECURSIVE Strip(_, _)
Strip(str, c) ==
    IF str = <<>> THEN str
    ELSE IF Head(str) = c THEN Strip(Tail(str), c)
    ELSE IF str[Len(str)] = c THEN Strip(SubSeq(str, 1, Len(str) - 1), c)
    ELSE str

\* int(s) for a str of decimal digits; anything else raises ValueError
IsInt(str) == str # <<>> /\ \A i \in 1..Len(str) : IsDigit(str[i])
RECURSIVE ToInt(_)
ToInt(str) ==
    IF str = <<>> THEN 0
    ELSE 10 * ToInt(SubSeq(str, 1, Len(str) - 1)) + DigitVal(str[Len(str)])

Raised == [ok |-> FALSE, host |-> <<>>, port |-> 0, path |-> <<>>]

\* lines 90-104 of app_v2.py, lines 168-178 of blink_diagnostic.py (the same
\* statements): split at the first "/", then at ":". Unpacking split(":")
\* into two names raises ValueError when there are two colons or more.
SplitRest(rest) ==
    LET hasPath   == Count(rest, "/") > 0
        host_port == IF hasPath THEN Before(rest, "/") ELSE rest
        path      == IF hasPath THEN <<"/">> \o After(rest, "/") ELSE <<"/">>
    IN IF Count(host_port, ":") = 0
       THEN [ok |-> TRUE, host |-> host_port, port |-> DefaultPort, path |-> path]
       ELSE IF Count(host_port, ":") = 1 /\ IsInt(After(host_port, ":"))
       THEN [ok |-> TRUE, host |-> Before(host_port, ":"),
             port |-> ToInt(After(host_port, ":")), path |-> path]
       ELSE Raised

\* IMMISStreamHandler._parse_url: the prefix is removed when it is there
\* (lines 87-88)
_parse_url(u) == SplitRest(IF StartsWith(u, Immis) THEN Drop(u, SchemeLen) ELSE u)

\* _test_immis line 167: url[8:], whatever the first eight characters are
DiagParseUrl(u) == SplitRest(Drop(u, SchemeLen))

\* _build_subscription lines 131-137: `session_id or self.path`
HandlerSession(path) ==
    LET session_id == IF Occurrences(path, SessionKey) # {}
                      THEN UpTo(AfterLast(path, SessionKey), "&")
                      ELSE <<>>
    IN IF session_id # <<>> THEN session_id ELSE path

\* _test_immis line 214
DiagSession(path) == UpTo(Strip(path, "/"), "?")

\* the references: <scheme><host>[:<port>][/<path>][?<query>], well formed
\* or not
Schemes == {Immis, Rtsp, Rtsps, <<>>}
Hosts == {<<"h">>, <<>>}
PortDigits == UNION {[1..k -> {"4", "5"}] : k \in 1..MaxPortDigits}
PortParts == {<<>>, <<":">>} \cup {<<":">> \o d : d \in PortDigits}
PathParts == {<<>>, <<"/">>, <<"/", "p">>}
SessionIds == {<<"s">>}
QueryParts ==
    {<<>>, <<"?">> \o SessionKey}
    \cup {<<"?">> \o SessionKey \o id : id \in SessionIds}
    \cup {<<"?">> \o SessionKey \o id \o <<"&", "k">> : id \in SessionIds}
    \cup {<<"?", "k", "&">> \o SessionKey \o id : id \in SessionIds}
Refs == {sc \o h \o po \o pa \o q :
            sc \in Schemes, h \in Hosts, po \in PortParts, pa \in PathParts,
            q \in QueryParts}

notParse == <<program, streamVars, ffVars, fbVars, diagVars, handlerVars, proxyVars,
              httpVars>>

\* app_v2.py line 78: __init__ parses the reference; a ValueError leaves no
\* handler
ParseHandler ==
    /\ program = "parse" /\ p_who = "handler" /\ p_pc = "new"
    /\ p_parsed' = _parse_url(p_url)
    /\ p_pc' = IF p_parsed'.ok THEN "parsed" ELSE "raised"
    /\ UNCHANGED <<notParse, p_who, p_url, p_dial, p_session>>

\* app_v2.py lines 115-116: connect() dials self.host, self.port as they are
DialHandler ==
    /\ program = "parse" /\ p_who = "handler" /\ p_pc = "parsed"
    /\ p_dial' = [host |-> p_parsed.host, port |-> p_parsed.port]
    /\ p_pc' = "dialled"
    /\ UNCHANGED <<notParse, p_who, p_url, p_parsed, p_session>>

\* app_v2.py line 156: start_stream() builds the subscription
SessionOfHandler ==
    /\ program = "parse" /\ p_who = "handler" /\ p_pc = "dialled"
    /\ p_session' = HandlerSession(p_parsed.path)
    /\ p_pc' = "built"
    /\ UNCHANGED <<notParse, p_who, p_url, p_parsed, p_dial>>

\* blink_diagnostic.py lines 166-178; a ValueError ends the diagnostic
ParseDiag ==
    /\ program = "parse" /\ p_who = "diag" /\ p_pc = "new"
    /\ p_parsed' = DiagParseUrl(p_url)
    /\ p_pc' = IF p_parsed'.ok THEN "parsed" ELSE "raised"
    /\ UNCHANGED <<notParse, p_who, p_url, p_dial, p_session>>

\* blink_diagnostic.py lines 187 and 201: gethostbyname(host), then
\* open_connection(host, port)
DialDiag ==
    /\ program = "parse" /\ p_who = "diag" /\ p_pc = "parsed"
    /\ p_dial' = [host |-> p_parsed.host, port |-> p_parsed.port]
    /\ p_pc' = "dialled"
    /\ UNCHANGED <<notParse, p_who, p_url, p_parsed, p_session>>

\* blink_diagnostic.py line 214
SessionOfDiag ==
    /\ program = "parse" /\ p_who = "diag" /\ p_pc = "dialled"
    /\ p_session' = DiagSession(p_parsed.path)
    /\ p_pc' = "built"
    /\ UNCHANGED <<notParse, p_who, p_url, p_parsed, p_dial>>

NoDial == [host |-> <<>>, port |-> 0]

\* _test_immis runs on immis:// references only (blink_diagnostic.py:141)
InitParse ==
    /\ p_pc = "new" /\ p_url \in Refs /\ p_who \in {"handler", "diag"}
    /\ p_who = "diag" => StartsWith(p_url, Immis)
    /\ p_parsed = Raised /\ p_dial = NoDial /\ p_session = <<>>

ParseOff ==
    /\ p_pc = "off" /\ p_url = <<>> /\ p_who = "none"
    /\ p_parsed = Raised /\ p_dial = NoDial /\ p_session = <<>>

NextParse ==
    \/ ParseHandler \/ DialHandler \/ SessionOfHandler
    \/ ParseDiag \/ DialDiag \/ SessionOfDiag

----------------------------------------------------------------------------
(* BlinkDiagnostic._test_blinkpy_proxy (blink_diagnostic.py:290-339) *)

notProxy == <<program, streamVars, ffVars, fbVars, diagVars, handlerVars, parseVars,
              httpVars>>

\* lines 337-339: the outer handler logs the failure; lines 334-335 are not run
ProxyTestRaised ==
    /\ x_pc' = "done"
    /\ x_log' = Append(x_log, FALSE)

\* line 294: camera.init_livestream()
ProxyInit ==
    /\ program = "proxy" /\ x_pc = "init"
    /\ \/ x_pc' = "start" /\ x_log' = x_log
       \/ ProxyTestRaised
    /\ UNCHANGED <<notProxy, x_feed, x_proxy, x_sock>>

\* line 297: livestream.start()
ProxyStart ==
    /\ program = "proxy" /\ x_pc = "start"
    /\ \/ x_pc' = "feed" /\ x_proxy' = "running" /\ x_log' = x_log
       \/ ProxyTestRaised /\ x_proxy' = x_proxy
    /\ UNCHANGED <<notProxy, x_feed, x_sock>>

\* lines 304-308: create_task(livestream.feed()), then sleep(5)
ProxyFeed ==
    /\ program = "proxy" /\ x_pc = "feed"
    /\ x_feed' = "running" /\ x_pc' = "connect"
    /\ UNCHANGED <<notProxy, x_proxy, x_sock, x_log>>

\* livestream.feed() fails in its own task; nothing awaits it
ProxyFeedFails ==
    /\ program = "proxy" /\ x_feed = "running"
    /\ x_feed' = "failed"
    /\ UNCHANGED <<notProxy, x_pc, x_proxy, x_sock, x_log>>

\* lines 313-316: open_connection to the proxy within 5 s; TimeoutError is
\* caught on line 329, anything else (connection refused) on line 337
ProxyConnect ==
    /\ program = "proxy" /\ x_pc = "connect"
    /\ \/ x_sock' = "open" /\ x_pc' = "read" /\ x_log' = x_log
       \/ x_sock' = x_sock /\ x_pc' = "cleanup" /\ x_log' = Append(x_log, FALSE)
       \/ x_sock' = x_sock /\ ProxyTestRaised
    /\ UNCHANGED <<notProxy, x_feed, x_proxy>>

\* lines 318-331: one read within 5 s; bytes or none are logged and
\* writer.close() runs; TimeoutError skips it; anything else (connection
\* reset) goes to line 337
ProxyRead ==
    /\ program = "proxy" /\ x_pc = "read"
    /\ \/ \E got \in BOOLEAN :
            x_sock' = "closed" /\ x_pc' = "cleanup" /\ x_log' = Append(x_log, got)
       \/ x_sock' = x_sock /\ x_pc' = "cleanup" /\ x_log' = Append(x_log, FALSE)
       \/ x_sock' = x_sock /\ ProxyTestRaised
    /\ UNCHANGED <<notProxy, x_feed, x_proxy>>

\* lines 334-335: feed_task.cancel() and livestream.stop()
ProxyCleanup ==
    /\ program = "proxy" /\ x_pc = "cleanup"
    /\ x_feed' = IF x_feed = "running" THEN "cancelled" ELSE x_feed
    /\ x_proxy' = "stopped"
    /\ x_pc' = "done"
    /\ UNCHANGED <<notProxy, x_sock, x_log>>

InitProxy ==
    /\ x_pc = "init" /\ x_feed = "none" /\ x_proxy = "none" /\ x_sock = "none"
    /\ x_log = <<>>

ProxyOff ==
    /\ x_pc = "off" /\ x_feed = "none" /\ x_proxy = "none" /\ x_sock = "none"
    /\ x_log = <<>>

NextProxy ==
    \/ ProxyInit \/ ProxyStart \/ ProxyFeed \/ ProxyFeedFails
    \/ ProxyConnect \/ ProxyRead \/ ProxyCleanup

----------------------------------------------------------------------------
(* One request to an endpoint of app_v2.py (lines 262-505) or of
   working_solution.py (lines 95-247), up to its first account-service
   operation; get_thumbnail is followed to its response. *)

notHttp == <<program, streamVars, ffVars, fbVars, diagVars, handlerVars, parseVars,
             proxyVars>>

AppEndpoints ==
    {"get_status", "get_cameras", "get_thumbnail", "get_liveview_url",
     "stream_camera", "record_clip", "get_latest_clip", "websocket_stream"}
WorkingSolutionEndpoints ==
    {"list_cameras", "get_snapshot", "take_snapshot",
     "working_solution.record_clip", "get_clip", "websocket_live"}
Endpoints == AppEndpoints \cup WorkingSolutionEndpoints

IsWebSocket(ep) == ep \in {"websocket_stream", "websocket_live"}

\* endpoints without the `if not blink:` test
NeverRefuses(ep) == FALSE

\* the endpoints that begin with `if not blink:` and refuse the request
RefusesUnauthenticated(ep) == ep \notin {"get_status", "get_clip"}

\* the endpoints that call _find_camera(camera_id)
NeedsCamera(ep) ==
    ep \notin {"get_status", "get_cameras", "list_cameras", "get_clip"}

\* the first account-service operation of the endpoint's body
FirstOp(ep) ==
    CASE ep \in {"get_liveview_url", "stream_camera"} -> "get_liveview"
      [] ep \in {"record_clip", "working_solution.record_clip"} -> "record"
      [] ep \in {"get_latest_clip", "websocket_stream", "get_snapshot"} -> "refresh"
      [] OTHER -> "snap_picture"

\* the answer when that operation raises: HTTPException(500) or the
\* framework's 500; the MJPEG response has begun with 200 by then; a
\* WebSocket handler logs the error and returns
FailStatus(ep) ==
    IF ep = "stream_camera" THEN 200 ELSE IF IsWebSocket(ep) THEN 1000 ELSE 500

\* the response is over
Answer(status, body) ==
    /\ q_pc' = "done" /\ q_status' = status /\ q_body' = body

\* the first statements of every endpoint: get_status reports the state,
\* get_clip serves a file, the others refuse with 503 (a WebSocket: accept(),
\* then close(1008)) unless blink is set; the camera lists read blink.cameras
EpCheckAuth ==
    /\ program = "http" /\ q_pc = "recv"
    /\ CASE q_ep = "get_status" -> Answer(200, NoImage)
         [] q_ep = "get_clip" -> \E st \in {200, 404} : Answer(st, NoImage)
         [] RefusesUnauthenticated(q_ep) /\ ~q_auth ->
                Answer(IF IsWebSocket(q_ep) THEN 1008 ELSE 503, NoImage)
         [] OTHER ->
                IF NeedsCamera(q_ep)
                THEN q_pc' = "lookup" /\ UNCHANGED <<q_status, q_body>>
                ELSE Answer(200, NoImage)
    /\ UNCHANGED <<notHttp, q_ep, q_auth, q_known, q_cache0, q_cache, q_ops, q_raised>>

\* camera = _find_camera(camera_id); 404 (a WebSocket: close(1008)) for None
EpFindCamera ==
    /\ program = "http" /\ q_pc = "lookup"
    /\ q_ops' = Append(q_ops, "_find_camera")
    /\ IF q_known
       THEN q_pc' = "body" /\ UNCHANGED <<q_status, q_body>>
       ELSE Answer(IF IsWebSocket(q_ep) THEN 1008 ELSE 404, NoImage)
    /\ UNCHANGED <<notHttp, q_ep, q_auth, q_known, q_cache0, q_cache, q_raised>>

\* the body of an endpoint other than get_thumbnail, to its first
\* account-service operation; get_snapshot answers 404 without an image
EpServiceOp ==
    /\ program = "http" /\ q_pc = "body" /\ q_ep # "get_thumbnail"
    /\ q_ops' = Append(q_ops, FirstOp(q_ep))
    /\ \/ /\ q_raised' = TRUE /\ q_cache' = q_cache
          /\ Answer(FailStatus(q_ep), NoImage)
       \/ /\ q_raised' = q_raised
          /\ IF FirstOp(q_ep) = "refresh"
             THEN q_cache' \in Images \cup {NoImage}
             ELSE q_cache' = q_cache
          /\ IF q_ep = "get_snapshot"
             THEN Answer(IF q_cache' = NoImage THEN 404 ELSE 200, q_cache')
             ELSE Answer(IF IsWebSocket(q_ep) THEN 0 ELSE 200, NoImage)
    /\ UNCHANGED <<notHttp, q_ep, q_auth, q_known, q_cache0>>

\* app_v2.py lines 303-304: the cached image is there
ThumbCached ==
    /\ program = "http" /\ q_pc = "body" /\ q_ep = "get_thumbnail"
    /\ q_cache # NoImage
    /\ Answer(200, q_cache)
    /\ UNCHANGED <<notHttp, q_ep, q_auth, q_known, q_cache0, q_cache, q_ops, q_raised>>

\* app_v2.py lines 307-308: snap_picture() and sleep(2); a raise is caught
\* on line 315
ThumbSnap ==
    /\ program = "http" /\ q_pc = "body" /\ q_ep = "get_thumbnail"
    /\ q_cache = NoImage
    /\ q_ops' = Append(q_ops, "snap_picture")
    /\ \/ q_pc' = "refresh" /\ UNCHANGED <<q_raised, q_status, q_body>>
       \/ q_raised' = TRUE /\ Answer(500, NoImage)
    /\ UNCHANGED <<notHttp, q_ep, q_auth, q_known, q_cache0, q_cache>>

\* app_v2.py lines 309-316: refresh, then the image or HTTPException(404);
\* HTTPException is an Exception and is raised inside the try, so line 315
\* catches it and line 316 answers 500
ThumbRefresh ==
    /\ program = "http" /\ q_pc = "refresh"
    /\ q_ops' = Append(q_ops, "refresh")
    /\ \/ q_raised' = TRUE /\ q_cache' = q_cache /\ Answer(500, NoImage)
       \/ /\ q_raised' = q_raised
          /\ q_cache' \in Images \cup {NoImage}
          /\ IF q_cache' # NoImage
             THEN Answer(200, q_cache')
             ELSE Answer(500, NoImage)
    /\ UNCHANGED <<notHttp, q_ep, q_auth, q_known, q_cache0>>

\* without blink there are no cameras and no cached image
InitHttp ==
    /\ q_pc = "recv" /\ q_ep \in Endpoints
    /\ q_auth \in BOOLEAN /\ q_known \in BOOLEAN
    /\ q_cache0 \in Images \cup {NoImage} /\ q_cache = q_cache0
    /\ ~q_auth => ~q_known /\ q_cache0 = NoImage
    /\ ~q_known => q_cache0 = NoImage
    /\ q_ops = <<>> /\ q_raised = FALSE /\ q_status = 0 /\ q_body = NoImage

HttpOff ==
    /\ q_pc = "off" /\ q_ep = "none" /\ q_auth = FALSE /\ q_known = FALSE
    /\ q_cache0 = NoImage /\ q_cache = NoImage
    /\ q_ops = <<>> /\ q_raised = FALSE /\ q_status = 0 /\ q_body = NoImage

NextHttp ==
    \/ EpCheckAuth \/ EpFindCamera \/ EpServiceOp
    \/ ThumbCached \/ ThumbSnap \/ ThumbRefresh

----------------------------------------------------------------------------
(* The specifications *)

\* the entry points that are not the stream are not running
OthersOff == DiagOff /\ HandlerOff /\ ParseOff /\ ProxyOff /\ HttpOff

Init ==
    \/ program = "stream" /\ InitStream /\ OthersOff
    \/ /\ program = "diag" /\ StreamOff /\ InitDiag
       /\ HandlerOff /\ ParseOff /\ ProxyOff /\ HttpOff
    \/ /\ program = "handler" /\ StreamOff /\ InitHandler
       /\ DiagOff /\ ParseOff /\ ProxyOff /\ HttpOff
    \/ /\ program = "parse" /\ StreamOff /\ InitParse
       /\ DiagOff /\ HandlerOff /\ ProxyOff /\ HttpOff
    \/ /\ program = "proxy" /\ StreamOff /\ InitProxy
       /\ DiagOff /\ HandlerOff /\ ParseOff /\ HttpOff
    \/ /\ program = "http" /\ StreamOff /\ InitHttp
       /\ DiagOff /\ HandlerOff /\ ParseOff /\ ProxyOff

\* an output of two back-to-back frames whose payloads hold neither marker
MarkerFree(p) == Find(p, FF, D8, 0) = -1 /\ Find(p, FF, D9, 0) = -1
Payloads == {p \in BytesUpTo(MaxPayload) : MarkerFree(p)}
FrameOf(p) == <<FF, D8>> \o p \o <<FF, D9>>
TwoFrames == {FrameOf(p) \o FrameOf(q) : p, q \in Payloads}

Next ==
    \/ NextStream(BytesUpTo(MaxLen)) \/ NextDiag \/ NextHandler \/ NextParse
    \/ NextProxy \/ NextHttp
Spec == Init /\ [][Next]_vars

\* the relay of mjpeg_stream over an ffmpeg that writes exactly two frames
InitTwoFrames == program = "stream" /\ InitStream /\ OthersOff
NextTwoFrames == NextRelay(TwoFrames)
SpecTwoFrames == InitTwoFrames /\ [][NextTwoFrames]_vars

\* the relay over an ffmpeg that writes a little, or one frame, and may then
\* neither write nor exit. The generator's own steps are weakly fair (the
\* event loop resumes a coroutine whose await has completed, the consumer
\* pulls what is yielded); what the process, the feed and the consumer's
\* connection do is not.
HungOutputs == Payloads \cup {FrameOf(p) : p \in Payloads}
InitHung == program = "stream" /\ InitStream /\ OthersOff
NextHung == NextRelay(HungOutputs)
RelayProgress ==
    \/ GetLiveview \/ InitLivestream \/ StartLivestream \/ Sleep1
    \/ Spawn(HungOutputs) \/ ReadChunk \/ ReadEOF \/ Resume \/ Terminate
SpecHung == InitHung /\ [][NextHung]_vars /\ WF_vars(RelayProgress)

\* the snapshot loop of a stream whose get_liveview() failed. Every await of
\* the loop is a sleep or a call that returns or raises, and the consumer
\* either pulls the next part or disconnects: the loop's own steps are
\* weakly fair, the refreshes of other tasks are not.
InitFallback == program = "stream" /\ InitStream /\ OthersOff
FallbackProgress ==
    FbSnap \/ FbRefreshFails \/ FbRefresh \/ FbYield \/ FbRate \/ FbErr \/ FbCancel
NextFallbackOnly == GetLiveviewFails \/ NextFallback
SpecFallback ==
    InitFallback /\ [][NextFallbackOnly]_vars /\ WF_vars(FallbackProgress)

----------------------------------------------------------------------------
(* Vocabulary of the properties *)

\* the bytes process.stdout.read() has returned so far
Consumed == SubSeq(out, 1, pos)

\* the bytes returned before the latest read
BeforeChunk == SubSeq(out, 1, pos - Len(chunk))

\* the images the consumer received from the relay, in order
RelayData == [i \in 1..Len(frames) |-> frames[i].data]

\* the frames of a byte string fed to an empty buffer in one piece
RECURSIVE Demux(_)
Demux(buf) ==
    LET r == ScanOne(buf)
    IN IF r.found THEN <<r.frame>> \o Demux(r.rest) ELSE <<>>

\* a start marker with no end marker at or after it
Partial(buf) ==
    /\ Find(buf, FF, D8, 0) # -1
    /\ Find(buf, FF, D9, Find(buf, FF, D8, 0)) = -1

\* the inner loop has run dry on everything read so far
Drained ==
    /\ program = "stream"
    /\ \/ ff_pc = "read"
       \/ ff_pc = "finally" /\ ff_why \in {"eof", "cancel"}

----------------------------------------------------------------------------
(* C2: however the bytes of ffmpeg's output are split into reads (one byte
   at a time included), once the inner loop has run dry the frames
   delivered are, in number, content and order, those the same bytes yield
   when fed to an empty buffer as one chunk. *)
C2_ChunkIndependence == Drained => RelayData = Demux(Consumed)

\* a whole frame was delivered although the last read returned one byte
C2_Witness ==
    /\ program = "stream" /\ ff_pc = "read"
    /\ pos = Len(out) /\ Len(chunk) = 1
    /\ Len(frames) = 1 /\ frames[1].data = out

(* C9: an output FF D8 <n bytes> FF D9 FF D8 <m bytes> FF D9 whose payloads
   hold no marker yields, once read completely, exactly two frames, the
   first of n+4 bytes and the second of m+4 bytes, in that order, and
   leaves the buffer empty. *)
C9_TwoFrames ==
    \A n, m \in 0..MaxPayload :
        LET p == SubSeq(out, 3, n + 2)
            q == SubSeq(out, n + 7, n + m + 6)
        IN (/\ Drained /\ pos = Len(out) /\ Len(out) = n + m + 8
            /\ MarkerFree(p) /\ MarkerFree(q)
            /\ out = FrameOf(p) \o FrameOf(q)) =>
               /\ Len(frames) = 2
               /\ frames[1].data = FrameOf(p) /\ Len(frames[1].data) = n + 4
               /\ frames[2].data = FrameOf(q) /\ Len(frames[2].data) = m + 4
               /\ buffer = <<>>

\* both frames came out of a single read of the whole output
C9_Witness ==
    /\ program = "stream" /\ ff_pc = "read"
    /\ Len(out) = MaxPayload + 8 /\ chunk = out
    /\ Len(frames) = 2
    /\ Len(frames[1].data) = MaxPayload + 4 /\ Len(frames[2].data) = 4

(* C10: while the bytes read so far hold a start marker and no end marker
   after it, nothing is delivered and the buffer keeps all of them; when a
   later read brings the end marker, the first frame delivered runs from
   that start marker to that end marker, across the reads, and it is the
   only frame if no start marker follows it. *)
C10_PartialFramePersists ==
    /\ (program = "stream" /\ ff_pc \in {"read", "yielded"} /\ Partial(Consumed)) =>
           /\ frames = <<>> /\ ff_pc = "read" /\ buffer = Consumed
    /\ (program = "stream" /\ ff_pc \in {"read", "yielded"} /\ chunk # <<>>
            /\ Partial(BeforeChunk) /\ ~Partial(Consumed)) =>
           LET s == Find(Consumed, FF, D8, 0)
               e == Find(Consumed, FF, D9, s)
           IN /\ Len(frames) >= 1
              /\ frames[1].data = Slice(Consumed, s, e + 2)
              /\ Len(frames[1].data) > pos - Len(chunk) - s
              /\ (ff_pc = "read" /\ Find(Consumed, FF, D8, e + 2) = -1)
                     => Len(frames) = 1

\* the start marker came in one read, the end marker alone in the next
C10_Witness ==
    /\ program = "stream" /\ ff_pc = "read"
    /\ Partial(BeforeChunk) /\ chunk = <<FF, D9>>
    /\ Len(frames) = 1 /\ frames[1].data = BeforeChunk \o chunk

(* C5: the bytes buffered without an end marker never exceed the overflow
   bound: a read that would take them over it fails the session with
   FrameOverflowError instead of returning to the read of line 548. *)
C5_BufferBounded ==
    (program = "stream" /\ ff_pc = "read") => Len(buffer) <= OverflowBound

(* C8: when mjpeg_stream is over, however it ended (ffmpeg's end of file,
   an error, the consumer's disconnect during a read or in a yield), the
   ffmpeg process it spawned is not running and has had its terminate()
   call, the feed task is not running and the proxy is not running. *)
C8_NothingLeftRunning ==
    (program = "stream" /\ s_pc = "done") =>
        /\ proc # "running" /\ feed # "running" /\ proxy # "running"
        /\ proc # "none" => term_calls = 1

\* the consumer left an immis relay: ffmpeg killed, feed cancelled, proxy stopped
C8_Witness ==
    /\ program = "stream" /\ s_pc = "done" /\ s_end = "cancelled"
    /\ url = "immis" /\ proc = "terminated"
    /\ feed = "cancelled" /\ proxy = "stopped"

\* the consecutive distinct non-empty values of a sequence of cache reads
RECURSIVE ConsecutiveDistinct(_, _)
ConsecutiveDistinct(seq, last) ==
    IF seq = <<>> THEN <<>>
    ELSE IF Head(seq) # NoImage /\ Head(seq) # last
         THEN <<Head(seq)>> \o ConsecutiveDistinct(Tail(seq), Head(seq))
         ELSE ConsecutiveDistinct(Tail(seq), last)

Entered(name) == \E i \in 1..Len(strategy) : strategy[i] = name

(* C1: when the negotiation with the immis endpoint has failed (the feed
   task failed), a stream the consumer did not abandon ends without
   raising, has gone through the snapshot fallback, and delivered exactly
   the consecutive distinct non-empty values of image_from_cache. *)
C1_FallbackOnFailure ==
    (program = "stream" /\ s_pc = "done" /\ s_end # "cancelled"
        /\ feed = "failed") =>
        /\ s_end = "ended"
        /\ Entered("snapshot")
        /\ \A i \in 1..Len(frames) : frames[i].src = "snapshot"
        /\ RelayData = ConsecutiveDistinct(observed, NoImage)

(* C6: on the rtsps path a stream that ends because ffmpeg exited (with or
   without output) has fallen back to the snapshot strategy. *)
C6_RelayExhaustedFallsBack ==
    (program = "stream" /\ url = "rtsps" /\ s_pc = "done" /\ s_end = "ended")
        => Entered("snapshot")

----------------------------------------------------------------------------
\* the answers of the scenario: two structured rejections, then video whose
\* start code lies in the first four bytes
Script == <<{JsonError}, {JsonError}, {VideoLong, VideoShort}>>
Scripted ==
    /\ program = "diag" /\ d_pc = "done" /\ d_conns # <<>>
    /\ \A k \in 1..Len(d_hist) : k <= Len(Script) /\ d_hist[k].data \in Script[k]

LoggedSuccess(name) ==
    /\ d_log # <<>>
    /\ d_log[Len(d_log)] = [test |-> "IMMIS Subscription", success |-> TRUE,
                            cand |-> name]

(* C3 as claimed: candidates 1 and 2 rejected, candidate 3 answered with
   video: success is logged for candidate 3 after exactly 3 connection
   attempts. *)
C3_ThreeAttempts ==
    Scripted => /\ Len(d_hist) = 3 /\ LoggedSuccess(Candidates[3])
                /\ d_attempts = 3

(* C3 as amended: in that scenario success is logged for candidate 3 after
   exactly 4 connection attempts, the TLS test connection of phase 5.2 and
   one per candidate. *)
C3_ProbePlusThree ==
    Scripted => /\ Len(d_hist) = 3 /\ LoggedSuccess(Candidates[3])
                /\ d_attempts = Len(Candidates) + 1

C3_Witness ==
    /\ Scripted /\ Len(d_hist) = 3 /\ d_hist[3].data = VideoShort
    /\ Len(d_conns) = 4

(* C4: one run of _test_immis opens no more connections than there are
   candidates, and when it returns every connection it opened is closed. *)
C4_OneConnectionPerCandidate ==
    program = "diag" =>
        /\ d_attempts <= Len(Candidates)
        /\ d_pc = "done" => \A k \in 1..Len(d_conns) : d_conns[k].state = "closed"

----------------------------------------------------------------------------
(* C7: close() returns without raising and leaves connected = False and
   the transport closed, on a handler that never connected, on one whose
   transport has failed and on one that is closed already; and no ffmpeg
   process gets more than one terminate() call. *)
C7_TeardownIdempotent ==
    /\ (program = "handler" /\ h_last.op = "close") =>
           /\ h_last.ret = "None"
           /\ ~h_connected
           /\ h_writer # 0 => h_conns[h_writer].state = "closed"
    /\ term_calls <= 1

\* close() was called a second time on a transport that had failed
C7_Witness ==
    /\ program = "handler" /\ h_last.op = "close"
    /\ h_writer # 0 /\ h_conns[h_writer].closes = 2
    /\ h_calls = MaxCalls

----------------------------------------------------------------------------
\* the run on this reference is over: the parser raised, or the reference
\* went all the way to the subscription
ParseOver == program = "parse" /\ p_pc \in {"raised", "built"}

\* a host, a path and a session identifier without delimiters
GoodHost == <<"h">>
GoodPath == <<"/", "p">>

(* C11: for every valid reference immis://h:p/path?session=s, parsed by
   IMMISStreamHandler or by _test_immis, the host is h, the port is p and
   the session of the subscription is s; without a port the port is 443;
   without a query the session is the raw path. *)
C11_ReferenceParsed ==
    ParseOver =>
        \A d \in PortDigits, id \in SessionIds :
            /\ p_url = Immis \o GoodHost \o <<":">> \o d \o GoodPath
                         \o <<"?">> \o SessionKey \o id
                  => /\ p_pc = "built"
                     /\ p_parsed.host = GoodHost /\ p_parsed.port = ToInt(d)
                     /\ p_session = id
            /\ p_url = Immis \o GoodHost \o GoodPath \o <<"?">> \o SessionKey \o id
                  => /\ p_pc = "built"
                     /\ p_parsed.host = GoodHost /\ p_parsed.port = DefaultPort
                     /\ p_session = id
            /\ p_url = Immis \o GoodHost \o <<":">> \o d \o GoodPath
                  => /\ p_pc = "built"
                     /\ p_parsed.host = GoodHost /\ p_parsed.port = ToInt(d)
                     /\ p_session = GoodPath

\* the reference has no scheme in front, or nothing between the scheme and
\* the port, path or query
Malformed(u) ==
    \E sc \in Schemes, h \in Hosts, po \in PortParts, pa \in PathParts,
       q \in QueryParts :
        /\ u = sc \o h \o po \o pa \o q
        /\ sc = <<>> \/ h = <<>>

(* C12: a reference without a recognized scheme, or with an empty host,
   makes the parser raise: it yields no connection parameters and no
   connection is dialled for it. *)
C12_MalformedRejected ==
    (program = "parse" /\ p_pc # "new" /\ Malformed(p_url)) =>
        /\ p_pc = "raised"
        /\ p_dial = NoDial

----------------------------------------------------------------------------
(* C13: the scheme of the reference picks the strategy, once: an rtsp:// or
   rtsps:// reference is first served by the ffmpeg relay on that URL, an
   immis:// reference by the relay through the livestream proxy, and the
   snapshot loop is entered second, after that relay, or not at all. *)
C13_StrategyByScheme ==
    (program = "stream" /\ url \in {"rtsp", "rtsps", "immis"}) =>
        /\ strategy # <<>>
        /\ strategy[1] = (IF url = "immis" THEN "immis_relay" ELSE "rtsps_relay")
        /\ Len(strategy) <= 2
        /\ Len(strategy) = 2 => strategy[2] = "snapshot"

(* C14: the snapshot loop never starts more rounds than its bound, and once
   entered it always comes to an end that is not an exception: the end of
   the last round, whatever each round did (a frame, nothing, an error), or
   the consumer's disconnect. *)
C14_FallbackTerminates ==
    /\ [](program = "stream" => round <= MaxRounds)
    /\ [](Entered("snapshot") /\ s_pc = "done" /\ s_end # "cancelled"
              => round = MaxRounds)
    /\ Entered("snapshot") ~> (s_pc = "done" /\ s_end \in {"ended", "cancelled"})

\* the loop ran out of rounds: one round hit an error, one yielded a frame
C14_Witness ==
    /\ program = "stream" /\ s_pc = "done" /\ s_end = "ended"
    /\ strategy = <<"snapshot">> /\ round = MaxRounds
    /\ Len(frames) = 1 /\ Len(observed) = MaxRounds - 1

(* C15: an error of snap_picture() or refresh() in the snapshot loop ends
   the stream: from the error the generator goes nowhere but to its end,
   which carries the cause (or is the consumer's own disconnect). *)
C15_FallbackErrorTerminal ==
    [][(program = "stream" /\ s_pc = "fb_err") =>
           \/ s_pc' = "fb_err"
           \/ s_pc' = "done" /\ s_end' \in {"raised", "cancelled"}]_vars

----------------------------------------------------------------------------
\* b1 b2 stands at the 1-based position i of buf
MarkerAt(buf, i, b1, b2) == i >= 1 /\ i < Len(buf) /\ buf[i] = b1 /\ buf[i + 1] = b2

\* seq occurs in buf as a contiguous run
SliceOf(seq, buf) ==
    \E i \in 0..(Len(buf) - Len(seq)) : SubSeq(buf, i + 1, i + Len(seq)) = seq

(* C16: each pass of the scan over the buffer B either emits a frame or
   leaves B alone. An emitted frame is a contiguous run of the bytes read;
   it begins with the first FF D8 of B and ends with the first FF D9 at or
   after it; the bytes of B before it are dropped and those after it are
   what the buffer keeps. Nothing is emitted, and nothing dropped, while B
   has no FF D8 with an FF D9 at or after it. *)
C16_FrameIsFirstSlice ==
    [][(ReadChunk \/ Resume) =>
          LET B == IF pos' > pos THEN buffer \o chunk' ELSE buffer
          IN IF Len(frames') = Len(frames) + 1
             THEN LET f == frames'[Len(frames')].data
                  IN /\ Len(f) >= 4
                     /\ MarkerAt(f, 1, FF, D8)
                     /\ MarkerAt(f, Len(f) - 1, FF, D9)
                     /\ \A i \in 1..(Len(f) - 2) : ~MarkerAt(f, i, FF, D9)
                     /\ \E n \in 0..Len(B) :
                          /\ B = SubSeq(B, 1, n) \o f \o buffer'
                          /\ \A i \in 1..n : ~MarkerAt(B, i, FF, D8)
                     /\ SliceOf(f, SubSeq(out, 1, pos'))
             ELSE /\ frames' = frames /\ buffer' = B
                  /\ ~\E i, j \in 1..Len(B) :
                        i <= j /\ MarkerAt(B, i, FF, D8) /\ MarkerAt(B, j, FF, D9)]_vars

\* a byte before the start marker was dropped and the frame came out whole
C16_Witness ==
    /\ program = "stream" /\ ff_pc = "yielded"
    /\ out = <<0, FF, D8, FF, D9>> /\ pos = Len(out)
    /\ Len(frames) = 1 /\ frames[1].data = <<FF, D8, FF, D9>>
    /\ buffer = <<>>

----------------------------------------------------------------------------
(* C17: when _test_immis returns, every connection it opened is closed,
   whichever way each attempt ended (video, rejection, no bytes, timeout,
   an exception of write or read); and no connection carries more than one
   subscription. *)
C17_EveryConnectionClosed ==
    program = "diag" =>
        /\ \A k \in 1..Len(d_conns) : d_conns[k].writes <= 1
        /\ d_pc = "done" => \A k \in 1..Len(d_conns) : d_conns[k].state = "closed"

\* the connections opened for the candidates tried so far, in order
CandidateConns == SelectSeq(d_conns, LAMBDA c : c.cand # 0)

FailedLogged ==
    /\ d_log # <<>>
    /\ d_log[Len(d_log)] = [test |-> "IMMIS Subscription", success |-> FALSE,
                            cand |-> "none"]

(* C20: the candidates are tried in the order Simple, With Auth, Full, each
   at most once: a candidate is tried only when every one before it ended
   without Success; Success ends the run, logged for the candidate that got
   it; a run without Success has tried all three and logs the failure. A
   read that times out and a read that returns no bytes are treated alike:
   the connection is closed and the next candidate is tried. *)
C20_CandidateOrder ==
    program = "diag" =>
        /\ Len(d_hist) <= Len(Candidates)
        /\ \A k \in 1..Len(CandidateConns) : CandidateConns[k].cand <= Len(Candidates)
        /\ \A k \in 1..(Len(CandidateConns) - 1) :
               CandidateConns[k].cand < CandidateConns[k + 1].cand
        /\ \A k \in 1..(Len(d_hist) - 1) : d_hist[k].outcome # "Success"
        /\ d_pc \in {"connect", "write", "read"} => d_i = Len(d_hist) + 1
        /\ \A k \in 1..Len(d_hist) :
               d_hist[k].outcome \in {"Empty", "Timeout"} =>
                   \E c \in 1..Len(d_conns) :
                       d_conns[c].cand = k /\ d_conns[c].state = "closed"
        /\ (d_pc = "done" /\ d_hist # <<>>) =>
               IF d_hist[Len(d_hist)].outcome = "Success"
               THEN LoggedSuccess(Candidates[Len(d_hist)])
               ELSE Len(d_hist) = Len(Candidates) /\ FailedLogged

\* rejected, timed out, no bytes: all three tried, failure logged
C20_Witness ==
    /\ program = "diag" /\ d_pc = "done" /\ Len(d_hist) = 3
    /\ d_hist[1].outcome = "ProtocolError" /\ d_hist[2].outcome = "Timeout"
    /\ d_hist[3].outcome = "Empty"
    /\ FailedLogged

----------------------------------------------------------------------------
\* the answer is a JSON object: json.loads(data.decode()) succeeds
IsRecord(data) == data # <<>> /\ data[1] = 123 /\ data[Len(data)] = 125

\* the classification rule, in its order
RuleOutcome(data) ==
    IF IsVideo(data) THEN "Success"
    ELSE IF IsRecord(data) THEN "ProtocolError"
    ELSE IF Len(data) > MinVideoFrame THEN "Success"
    ELSE "ProtocolError"

(* C19: every non-empty answer is classified by the rule: Success when its
   first 20 bytes hold 00 00 00 01 or 00 00 01; otherwise ProtocolError when
   it is a structured record; otherwise Success when it is longer than the
   minimum video frame and ProtocolError when it is not. *)
C19_ClassifiedInOrder ==
    program = "diag" =>
        \A k \in 1..Len(d_hist) :
            d_hist[k].data # <<>> => d_hist[k].outcome = RuleOutcome(d_hist[k].data)

----------------------------------------------------------------------------
(* C18: no await of a stream waits forever: a stream that is waiting for
   ffmpeg's output at line 548 eventually delivers a frame to the consumer
   or ends (or moves on to the snapshot loop), even when the process
   neither writes nor exits and the consumer stays connected. *)
C18_NoStallForever ==
    (program = "stream" /\ s_pc = "relay" /\ ff_pc = "read" /\ frames = <<>>)
        ~> (frames # <<>> \/ s_pc \in {"done", "finalizing"} \/ Entered("snapshot"))

----------------------------------------------------------------------------
\* _test_immis has returned without video from any candidate
EndedWithoutSuccess ==
    /\ program = "diag" /\ d_pc = "done"
    /\ \A k \in 1..Len(d_hist) : d_hist[k].outcome # "Success"

(* C21 as claimed: a run that ends without Success has tried every
   candidate, whatever failed on the way, a DNS failure or a connect
   failure included. *)
C21_EveryCandidateTried == EndedWithoutSuccess => Len(d_hist) = Len(Candidates)

(* C21 as amended: a connect failure for a candidate does not end the run:
   a run that got as far as the candidates and ends without Success has
   tried all of them. A DNS failure and a failure of the TLS test
   connection of phase 5.2 end the run before any candidate is tried, with
   no connection open. *)
C21_LoopConnectFailureContinues ==
    EndedWithoutSuccess =>
        \/ Len(d_hist) = Len(Candidates) /\ FailedLogged
        \/ /\ d_hist = <<>> /\ d_conns = <<>> /\ d_attempts <= 1
           /\ d_attempts = 1 =>
                  d_log = <<[test |-> "IMMIS Connection", success |-> FALSE,
                             cand |-> "none"]>>

\* the first candidate could not connect, the other two were still tried
C21_Witness ==
    /\ EndedWithoutSuccess /\ Len(d_hist) = 3
    /\ d_hist[1].outcome = "ConnectError"
    /\ d_hist[2].outcome = "ProtocolError" /\ d_hist[3].outcome = "ConnectError"

----------------------------------------------------------------------------
\* offs[i] is where frames[i] lies in the bytes read: each frame after the
\* end of the one before it
LaidOutAt(offs) ==
    /\ \A i \in 1..Len(frames) :
           Slice(Consumed, offs[i], offs[i] + Len(frames[i].data)) = frames[i].data
    /\ \A i \in 1..(Len(frames) - 1) :
           offs[i] + Len(frames[i].data) <= offs[i + 1]

(* C22: the frames a consumer has received lie in the bytes read one after
   the other, in the order received and without overlap (a frame whose end
   marker comes first was delivered first, none was delivered twice), and a
   step delivers at most one frame, after all those already delivered. *)
C22_FramesInStreamOrder ==
    /\ [](program = "stream" /\ ff_pc \in {"read", "yielded"} =>
             \E offs \in [1..Len(frames) -> 0..pos] : LaidOutAt(offs))
    /\ [][\/ frames' = frames
          \/ /\ Len(frames') = Len(frames) + 1
             /\ SubSeq(frames', 1, Len(frames)) = frames]_vars

\* the short frame came first, the long one second, out of separate reads
C22_Witness ==
    /\ program = "stream" /\ ff_pc = "yielded" /\ pos = Len(out)
    /\ Len(chunk) < Len(out)
    /\ Len(frames) = 2
    /\ Len(frames[1].data) = 4 /\ Len(frames[2].data) = MaxPayload + 4

----------------------------------------------------------------------------
(* C23: on every connection _test_immis opens, the subscription is one
   write followed by at most one read: never a read without the write
   before it, never a second write, never a second read; and the read in
   progress is on a connection that has had its write. *)
C23_OneWriteOneRead ==
    program = "diag" =>
        /\ \A k \in 1..Len(d_conns) :
               /\ d_conns[k].writes <= 1 /\ d_conns[k].reads <= 1
               /\ d_conns[k].reads = 1 => d_conns[k].writes = 1
        /\ d_pc = "read" => d_conns[d_writer].writes = 1 /\ d_conns[d_writer].reads = 0
        /\ d_pc = "write" => d_conns[d_writer].writes = 0 /\ d_conns[d_writer].reads = 0

\* one connection was written and read, the next only written (write failed)
C23_Witness ==
    /\ program = "diag" /\ d_pc = "connect" /\ Len(d_conns) = 3
    /\ d_conns[2].writes = 1 /\ d_conns[2].reads = 1
    /\ d_conns[3].writes = 1 /\ d_conns[3].reads = 0

----------------------------------------------------------------------------
(* C24: all the frames of one mjpeg_stream sequence come from one strategy:
   no snapshot frame follows a relay frame. *)
C24_OneStrategyPerStream ==
    program = "stream" =>
        \A i, j \in 1..Len(frames) : frames[i].src = frames[j].src

(* C25: whatever other tasks do to the camera's cached image, the image a
   round of the snapshot loop yields is the one it recorded as last_frame,
   and no two consecutive frames of the loop are identical. *)
C25_YieldsRecordedImage ==
    /\ [][FbYield => frames'[Len(frames')].data = last_frame]_vars
    /\ [](program = "stream" =>
             \A i \in 1..(Len(frames) - 1) :
                 (frames[i].src = "snapshot" /\ frames[i + 1].src = "snapshot")
                     => frames[i].data # frames[i + 1].data)

\* the transports of the handler that are open
OpenTransports == {k \in 1..Len(h_conns) : h_conns[k].state = "open"}

(* C26: an IMMISStreamHandler has at most one open transport at any time,
   the one its writer is bound to, and after close() it has none. *)
C26_OneOpenTransport ==
    program = "handler" =>
        /\ Cardinality(OpenTransports) <= 1
        /\ OpenTransports \subseteq {h_writer}
        /\ h_last.op = "close" => OpenTransports = {}

(* C27: the handler does I/O only while connected: start_stream() on a
   handler that is not connected returns False, read_data() on a handler
   that never connected returns None, and no call reads or writes a
   transport that close() has closed. *)
C27_IoOnlyWhileConnected ==
    program = "handler" =>
        /\ (h_last.op = "start_stream" /\ ~h_connected) => h_last.ret = "False"
        /\ (h_last.op = "read_data" /\ h_writer = 0) => h_last.ret = "None"
        /\ \A k \in 1..Len(h_conns) : h_conns[k].io_closed = 0

----------------------------------------------------------------------------
(* C29: once the proxy of _test_blinkpy_proxy has been started, the test
   does not return with the feed task or the proxy still running, whatever
   the connection to the proxy or the read from it did. *)
C29_ProxyTornDown ==
    (program = "proxy" /\ x_pc = "done" /\ x_proxy # "none") =>
        /\ x_feed # "running"
        /\ x_proxy = "stopped"

\* a get_thumbnail request for a known camera has been answered
ThumbnailAnswered ==
    /\ program = "http" /\ q_ep = "get_thumbnail" /\ q_pc = "done"
    /\ q_auth /\ q_known

(* C28: get_thumbnail answers 404 exactly when the camera had no cached
   image on arrival and has none after one snap_picture()/refresh() round;
   it answers 500 only when one of those operations raised; otherwise it
   answers 200 with the cached image. *)
C28_ThumbnailStatus ==
    ThumbnailAnswered =>
        /\ q_status = 404 <=>
               (q_cache0 = NoImage /\ q_cache = NoImage /\ ~q_raised)
        /\ q_status = 500 => q_raised
        /\ q_status \notin {404, 500} =>
               q_status = 200 /\ q_body = q_cache /\ q_body # NoImage

\* an API endpoint (under /api or /ws) has answered an unauthenticated request
UnauthenticatedAnswered == program = "http" /\ q_pc = "done" /\ ~q_auth

\* a camera endpoint has rejected an unknown camera id
UnknownCameraAnswered ==
    program = "http" /\ q_pc = "done" /\ q_auth /\ NeedsCamera(q_ep) /\ ~q_known

(* C30 as claimed: without blink every endpoint answers 503 (a WebSocket
   closes with 1008) and has made no camera lookup and no account-service
   operation; an unknown camera id is answered 404 (1008) after the lookup
   alone. *)
C30_AllRefuseUnauthenticated ==
    /\ UnauthenticatedAnswered =>
           /\ q_status = (IF IsWebSocket(q_ep) THEN 1008 ELSE 503)
           /\ q_ops = <<>>
    /\ UnknownCameraAnswered =>
           /\ q_status = (IF IsWebSocket(q_ep) THEN 1008 ELSE 404)
           /\ q_ops = <<"_find_camera">>

(* C30 as amended: without blink no endpoint makes a camera lookup or an
   account-service operation; every endpoint under /api/cameras answers 503
   and every WebSocket endpoint closes with 1008, while get_status answers
   200 (reporting authenticated: false) and get_clip serves or misses the
   file as it does with blink; an unknown camera id is answered 404 (1008)
   after the lookup alone. *)
C30_CameraEndpointsRefuse ==
    /\ UnauthenticatedAnswered =>
           /\ q_ops = <<>>
           /\ q_status = (CASE q_ep = "get_status" -> 200
                            [] q_ep = "get_clip" -> q_status
                            [] IsWebSocket(q_ep) -> 1008
                            [] OTHER -> 503)
           /\ q_ep = "get_clip" => q_status \in {200, 404}
    /\ UnknownCameraAnswered =>
           /\ q_status = (IF IsWebSocket(q_ep) THEN 1008 ELSE 404)
           /\ q_ops = <<"_find_camera">>
    /\ program = "http" /\ q_ops # <<>> => q_auth /\ q_ops[1] = "_find_camera"

\* the MJPEG endpoint refused an unauthenticated request
C30_Witness ==
    /\ UnauthenticatedAnswered /\ q_ep = "stream_camera"
    /\ q_status = 503 /\ q_ops = <<>>

====
